---- MODULE Spec2Model ----
(***************************************************************************)
(* Zenroom P-256 binding (src/src/zen_p256.c): public-key normalisation    *)
(* and the keygen / pubgen / pubcheck / sign / verify / public_xy /        *)
(* compress_public_key handlers.                                           *)
(*                                                                         *)
(* Each handler is a function of its Lua arguments, of the outcome of the  *)
(* allocations it makes and of what the curve engine answers.  A handler   *)
(* is modelled by an operator that returns the call's outcome (values      *)
(* returned, error raised, or crash) together with the trace of what the   *)
(* call did: buffers acquired and released, engine routines called, bytes  *)
(* fed to the hash, bytes written to result buffers.  One action per       *)
(* handler applies it to inputs drawn from bounded sets.                   *)
(*                                                                         *)
(* The curve engine (p256-m), the HASH256 routines, the octet allocator    *)
(* (o_arg, o_alloc, o_new, o_free) and the error macros (THROW, END) are   *)
(* not part of the file; they are modelled from their documented contract  *)
(* over a small cyclic group that stands for the curve.                    *)
(***************************************************************************)
EXTENDS Integers, Sequences, FiniteSets, TLC

\* ------------------------------------------------------------ sizes
PK_SIZE == 64
UNCOMPRESSED_PK_SIZE == 65
COMPRESSED_PK_SIZE == 33
PK_COORD_SIZE == 32
SK_SIZE == 32
HASH_SIZE == 32
SIG_SIZE == 64

\* ------------------------------------------------------------ bounds
\* longest message drawn
MaxMsgLen == 2
\* largest scalar the callers and the engine's RNG draw (capped by the group)
MaxScalar == 3

\* ------------------------------------------------------------ values
\* failed_msg == NULL
NULL_MSG == "(null)"

Nil == [t |-> "nil", b |-> FALSE, v |-> <<>>]
Bool(x) == [t |-> "bool", b |-> x, v |-> <<>>]
Oct(bytes) == [t |-> "octet", b |-> FALSE, v |-> bytes]
\* a stack slot below the handler's own arguments and results
Stale == [t |-> "stale", b |-> FALSE, v |-> <<>>]

\* an octet pointer: NULL, or a buffer with its bytes
NullBuf == [null |-> TRUE, val |-> <<>>]
Buf(bytes) == [null |-> FALSE, val |-> bytes]

Return(vals) == [kind |-> "return", msg |-> NULL_MSG, vals |-> vals]
Error(msg) == [kind |-> "error", msg |-> msg, vals |-> <<>>]
Crash == [kind |-> "crash", msg |-> NULL_MSG, vals |-> <<>>]

\* trace events, all <<kind, name, n>>
Acq(name) == <<"acq", name, 0>>
Rel(name) == <<"rel", name, 0>>
Use(name) == <<"use", name, 0>>
New(name, cap) == <<"new", name, cap>>
Wr(name, idx) == <<"wr", name, idx>>
Chk(name) == <<"chk", name, 0>>
\* an engine routine was called and returned ret
Eng(fn, ret) == <<"eng", fn, ret>>
Feed(who, byte) == <<"feed", who, byte>>

\* o_free(L, o): releases o unless it is NULL
o_free(name, isNull) == IF isNull THEN <<>> ELSE <<Rel(name)>>

\* what allocate_raw_public_key handed back to the handler that called it:
\* its return value, *failed_msg and *res_pk
NoNorm == [called |-> FALSE, ret |-> 0, failed_msg |-> NULL_MSG, res_pk |-> NullBuf]
WithNorm(a, fin) ==
  [outcome |-> fin.outcome, ev |-> fin.ev,
   norm |-> [called |-> TRUE, ret |-> a.ret, failed_msg |-> a.failed_msg,
             res_pk |-> a.res_pk]]

\* THROW(msg) raises a Lua error; END(n) returns the top n stack slots
Top(stack, n) ==
  [i \in 1..n |->
     IF Len(stack) - n + i >= 1 THEN stack[Len(stack) - n + i] ELSE Stale]

\* the tail of every handler: if (failed_msg != NULL) THROW(failed_msg); END(n)
Finish(failed_msg, stack, n, ev) ==
  [outcome |-> IF failed_msg # NULL_MSG THEN Error(failed_msg)
               ELSE Return(Top(stack, n)),
   ev |-> ev, norm |-> NoNorm]

\* ------------------------------------------------------------ curve engine
\* order of the group that stands for the curve; points are d*G, 1 <= d < Order
Order == 5

Pad32(n) == [i \in 1..32 |-> IF i = 32 THEN n ELSE 0]

\* the scalar in the first 32 bytes of b, 0 when it is out of range
ScalarOf(b) ==
  IF Len(b) >= 32 /\ (\A i \in 1..31 : b[i] = 0) /\ b[32] >= 1 /\ b[32] < Order
  THEN b[32] ELSE 0

\* a coordinate's 32 bytes: every byte carries the value, so that, as with the
\* coordinates of the real curve, the leading byte is not zero
Coord32(v) == [i \in 1..32 |-> v]

\* the coordinate in 32 bytes, 0 when they encode none
CoordOf(b) ==
  IF Len(b) >= 32 /\ (\A i \in 1..32 : b[i] = b[1]) /\ b[1] >= 1 /\ b[1] < Order
  THEN b[1] ELSE 0

\* x coordinate of d*G: shared by d*G and -(d*G)
XCoord(d) == IF d <= Order - d THEN d ELSE Order - d

\* raw X || Y of d*G; Y has the parity of d
RawPoint(d) == Coord32(XCoord(d)) \o Coord32(d)

\* the d with raw = X || Y of d*G, 0 if raw is not on the curve
PointOf(raw) ==
  IF Len(raw) >= 64 /\ \E d \in 1..(Order - 1) : SubSeq(raw, 1, 64) = RawPoint(d)
  THEN CHOOSE d \in 1..(Order - 1) : SubSeq(raw, 1, 64) = RawPoint(d)
  ELSE 0

HasInv(a) == \E b \in 1..(Order - 1) : (a * b) % Order = 1
Inv(a) == CHOOSE b \in 1..(Order - 1) : (a * b) % Order = 1

p256_publickey(sk) ==
  LET d == ScalarOf(sk)
  IN IF d = 0 THEN [ret |-> 2, out |-> <<>>]
     ELSE [ret |-> 0, out |-> RawPoint(d)]

p256_validate_pubkey(raw) == IF PointOf(raw) # 0 THEN 0 ELSE 1

\* compressed = prefix (0x02 even Y, 0x03 odd Y) || X
p256_uncompress_publickey(comp) ==
  LET x == CoordOf(SubSeq(comp, 2, 33))
      odd == comp[1] - 2
      y == IF x % 2 = odd THEN x ELSE Order - x
  IN IF x = 0 \/ x # XCoord(x) THEN [ret |-> 1, out |-> <<>>]
     ELSE [ret |-> 0, out |-> Coord32(x) \o Coord32(y)]

p256_compress_publickey(raw, engFail) ==
  IF engFail THEN [ret |-> 1, out |-> <<>>]
  ELSE [ret |-> 0, out |-> <<2 + (raw[64] % 2)>> \o SubSeq(raw, 1, 32)]

\* rnd is the scalar the engine's RNG draws; rngFail its failure
p256_gen_keypair(rnd, rngFail) ==
  IF rngFail THEN [ret |-> -1, priv |-> <<>>, pub |-> <<>>]
  ELSE [ret |-> 0, priv |-> Pad32(rnd), pub |-> RawPoint(rnd)]

\* the digest as a scalar
ZOf(hash) == hash[32] % Order

\* k is the nonce: the caller's when given, else drawn by the engine
p256_ecdsa_sign(k, sk, hash) ==
  LET d == ScalarOf(sk)
      kk == ScalarOf(k)
      r == XCoord(kk)
      s == (Inv(kk) * (ZOf(hash) + r * d)) % Order
  IN IF d = 0 THEN [ret |-> 2, out |-> <<>>]
     ELSE IF kk = 0 \/ ~HasInv(kk) THEN [ret |-> -1, out |-> <<>>]
     ELSE IF s = 0 \/ ~HasInv(s) THEN [ret |-> -1, out |-> <<>>]
     ELSE [ret |-> 0, out |-> Pad32(r) \o Pad32(s)]

p256_ecdsa_verify(sig, raw, hash) ==
  LET r == ScalarOf(SubSeq(sig, 1, 32))
      s == ScalarOf(SubSeq(sig, 33, 64))
      q == PointOf(raw)
  IN IF r = 0 \/ s = 0 \/ q = 0 \/ ~HasInv(s) THEN 3
     ELSE LET w == Inv(s)
              d == (ZOf(hash) * w + r * w * q) % Order
          IN IF d # 0 /\ XCoord(d) = r THEN 0 ELSE 3

\* ------------------------------------------------------------ hash stage
HASH256_init == 7
HASH256_process(h, byte) == (h * 31 + (byte % 256) + 1) % 251
HASH256_hash(h) == Pad32(h)

\* ------------------------------------------------------------ normaliser
\* failAt numbers the allocations (o_arg, o_alloc, o_new) in the order a call
\* makes them: failAt = n makes the n-th return NULL, failAt = 0 none

\* variant: the argument copy is not released when o_alloc fails
raw_alloc_failed_leak ==
  [ret |-> 1, failed_msg |-> "Could not allocate raw public key",
   res_pk |-> NullBuf, ev |-> <<Acq("pk")>>]

\* *res_pk == NULL: o_free(L, pk) and return 1
raw_alloc_failed ==
  [ret |-> 1, failed_msg |-> "Could not allocate raw public key",
   res_pk |-> NullBuf, ev |-> <<Acq("pk"), Rel("pk")>>]

\* for (i = 0; i < PK_SIZE; i++) (*res_pk)->val[i] = pk->val[i]
raw_copy(pk) == [i \in 1..PK_SIZE |-> pk[i]]

\* variant: the prefix byte is not skipped
uncompressed_copy_noskip(pk) == [i \in 1..PK_SIZE |-> pk[i]]

\* for (i = 0; i < PK_SIZE; i++) (*res_pk)->val[i] = pk->val[i+1]
uncompressed_copy(pk) == [i \in 1..PK_SIZE |-> pk[i + 1]]

allocate_raw_public_key(pk, failAt) ==
  IF failAt = 1
  THEN [ret |-> 1, failed_msg |-> "Could not allocate public key",
        res_pk |-> NullBuf, ev |-> <<>>]
  ELSE IF failAt = 2
  THEN raw_alloc_failed
  ELSE LET ev0 == <<Acq("pk"), Acq("raw_pk"), Use("raw_pk"), Use("pk")>>
       IN IF Len(pk) = PK_SIZE
          THEN [ret |-> 0, failed_msg |-> NULL_MSG,
                res_pk |-> Buf(raw_copy(pk)),
                ev |-> ev0 \o <<Use("pk"), Use("raw_pk"), Rel("pk")>>]
          ELSE IF Len(pk) = UNCOMPRESSED_PK_SIZE
          THEN IF pk[1] # 4
               THEN [ret |-> 1,
                     failed_msg |-> "Invalid long public key prefix: 0x04 expected",
                     res_pk |-> Buf(<<>>),
                     ev |-> ev0 \o <<Use("pk"), Rel("pk")>>]
               ELSE [ret |-> 0, failed_msg |-> NULL_MSG,
                     res_pk |-> Buf(uncompressed_copy(pk)),
                     ev |-> ev0 \o <<Use("pk"), Use("raw_pk"), Rel("pk")>>]
          ELSE IF Len(pk) = COMPRESSED_PK_SIZE
          THEN IF pk[1] # 2 /\ pk[1] # 3
               THEN [ret |-> 1,
                     failed_msg |->
                       "Invalid compressed public key prefix: 0x02 or 0x03 expected",
                     res_pk |-> Buf(<<>>),
                     ev |-> ev0 \o <<Use("pk"), Rel("pk")>>]
               ELSE LET u == p256_uncompress_publickey(pk)
                    IN [ret |-> u.ret, failed_msg |-> NULL_MSG,
                        res_pk |-> Buf(u.out),
                        ev |-> ev0 \o <<Use("pk"), Use("raw_pk"),
                                        Eng("p256_uncompress_publickey", u.ret),
                                        Rel("pk")>>]
          ELSE [ret |-> 1, failed_msg |-> "Invalid public key length",
                res_pk |-> Buf(<<>>), ev |-> ev0 \o <<Rel("pk")>>]

\* ------------------------------------------------------------ handlers
\* What the write of sk->len through a NULL sk, made before the if(!sk) test,
\* can do: "trap", the store faults and the process dies; "checked", the store
\* passes and the test is still there, so the handler throws; "unchecked", the
\* store passes and the compiler has removed the test as unreachable after the
\* dereference, so the engine is called on the NULL octet and END(1) returns
\* the slot below the frame, o_new having pushed nothing.
UbOutcomes == {"trap", "checked", "unchecked"}

\* uninit is what the never-written bytes of a fresh buffer happen to hold
p256_keygen(rnd, rngFail, failAt, ub, uninit) ==
  IF failAt = 1
  THEN \* sk == NULL: sk->len is written through it before the check
       IF ub = "trap"
       THEN [outcome |-> Crash, ev |-> <<Wr("sk", -1)>>, norm |-> NoNorm]
       ELSE IF ub = "checked"
       THEN Finish("Could not allocate secret key", <<>>, 1,
                   <<Wr("sk", -1), Chk("sk")>>)
       ELSE LET g == p256_gen_keypair(rnd, rngFail)
            IN Finish(NULL_MSG, <<>>, 1,
                      <<Wr("sk", -1), Eng("p256_gen_keypair", g.ret)>>)
  ELSE LET g == p256_gen_keypair(rnd, rngFail)
           sk == IF g.ret = 0 THEN g.priv ELSE uninit
       IN Finish(NULL_MSG, <<Oct(sk)>>, 1,
                 <<New("sk", SK_SIZE), Wr("sk", -1), Chk("sk"),
                   Eng("p256_gen_keypair", g.ret)>>)

p256_pubgen(sk, failAt) ==
  LET args == <<Oct(sk)>>
      evsk == <<Acq("sk"), Use("sk")>>
      body ==
        IF failAt = 1
        THEN [failed_msg |-> "Could not allocate secret key", stack |-> args,
              ev |-> <<>>, sk |-> TRUE]
        ELSE IF Len(sk) # SK_SIZE
        THEN [failed_msg |-> "Invalid size for P256 secret key",
              stack |-> args \o <<Nil>>, ev |-> evsk, sk |-> FALSE]
        ELSE IF failAt = 2
        THEN [failed_msg |-> "Could not allocate public key", stack |-> args,
              ev |-> evsk, sk |-> FALSE]
        ELSE LET e == p256_publickey(sk)
                 ev == evsk \o <<New("pk", PK_SIZE), Use("sk"),
                                 Eng("p256_publickey", e.ret)>>
             IN IF e.ret # 0
                THEN [failed_msg |-> "Could not generate public key",
                      stack |-> args \o <<Oct(e.out)>>, ev |-> ev, sk |-> FALSE]
                ELSE [failed_msg |-> NULL_MSG,
                      stack |-> args \o <<Oct(e.out)>>, ev |-> ev, sk |-> FALSE]
  IN Finish(body.failed_msg, body.stack, 1, body.ev \o o_free("sk", body.sk))

\* variant: the engine's return code is pushed without the comparison to 0
p256_pubcheck_raw_code(pk, failAt) ==
  LET a == allocate_raw_public_key(pk, failAt)
      args == <<Oct(pk)>>
      v == p256_validate_pubkey(a.res_pk.val)
      body ==
        IF a.ret # 0 THEN [stack |-> args, ev |-> <<>>]
        ELSE [stack |-> args \o <<Bool(v # 0)>>,
              ev |-> <<Use("raw_pk"), Eng("p256_validate_pubkey", v)>>]
  IN WithNorm(a, Finish(a.failed_msg, body.stack, 1,
                        a.ev \o body.ev \o o_free("raw_pk", a.res_pk.null)))

p256_pubcheck(pk, failAt) ==
  LET a == allocate_raw_public_key(pk, failAt)
      args == <<Oct(pk)>>
      v == p256_validate_pubkey(a.res_pk.val)
      body ==
        IF a.ret # 0 THEN [stack |-> args, ev |-> <<>>]
        ELSE [stack |-> args \o <<Bool(v = 0)>>,
              ev |-> <<Use("raw_pk"), Eng("p256_validate_pubkey", v)>>]
  IN WithNorm(a, Finish(a.failed_msg, body.stack, 1,
                        a.ev \o body.ev \o o_free("raw_pk", a.res_pk.null)))

\* for (i = 0; i < m->len; i++) HASH256_process(&sha256, m->val[i])
RECURSIVE sign_hash_loop(_, _, _)
sign_hash_loop(m, i, st) ==
  IF i < Len(m)
  THEN sign_hash_loop(m, i + 1,
         [h |-> HASH256_process(st.h, m[i + 1]),
          ev |-> Append(st.ev, Feed("sign", m[i + 1]))])
  ELSE st

\* nargs is lua_gettop(L); k is the third argument when there is one; rnd is
\* the nonce the engine draws when k == NULL
p256_sign(sk, m, k, nargs, rnd, failAt) ==
  LET args == IF nargs > 2 THEN <<Oct(sk), Oct(m), Oct(k)>> ELSE <<Oct(sk), Oct(m)>>
      ev2 == <<Acq("sk"), Acq("m"), Use("sk")>>
      st == sign_hash_loop(m, 0, [h |-> HASH256_init, ev |-> <<>>])
      hash == HASH256_hash(st.h)
      ev3 == ev2 \o <<Use("m")>> \o st.ev
      body ==
        IF failAt = 1
        THEN [failed_msg |-> "Could not allocate secret key", stack |-> args,
              ev |-> <<>>, sk |-> TRUE, m |-> TRUE, k |-> TRUE]
        ELSE IF failAt = 2
        THEN [failed_msg |-> "Could not allocate message", stack |-> args,
              ev |-> <<Acq("sk")>>, sk |-> FALSE, m |-> TRUE, k |-> TRUE]
        ELSE IF Len(sk) # SK_SIZE
        THEN [failed_msg |-> "Invalid size for ECDSA secret key",
              stack |-> args \o <<Nil>>,
              ev |-> ev2, sk |-> FALSE, m |-> FALSE, k |-> TRUE]
        ELSE IF failAt = 3
        THEN [failed_msg |-> "Could not allocate signature", stack |-> args,
              ev |-> ev3, sk |-> FALSE, m |-> FALSE, k |-> TRUE]
        ELSE IF nargs > 2 /\ failAt = 4
        THEN [failed_msg |-> "Could not allocate ephemeral key",
              stack |-> args \o <<Oct(<<>>)>>,
              ev |-> ev3 \o <<New("sig", SIG_SIZE)>>,
              sk |-> FALSE, m |-> FALSE, k |-> TRUE]
        ELSE LET e == p256_ecdsa_sign(IF nargs > 2 THEN k ELSE Pad32(rnd), sk, hash)
                 ev == ev3 \o <<New("sig", SIG_SIZE)>>
                           \o (IF nargs > 2 THEN <<Acq("k"), Use("k")>> ELSE <<>>)
                           \o <<Use("sk"), Eng("p256_ecdsa_sign", e.ret)>>
             IN [failed_msg |-> IF e.ret # 0 THEN "Could not sign message"
                                ELSE NULL_MSG,
                 stack |-> args \o <<Oct(e.out)>>,
                 ev |-> ev, sk |-> FALSE, m |-> FALSE, k |-> ~(nargs > 2)]
  IN Finish(body.failed_msg, body.stack, 1,
            body.ev \o o_free("m", body.m) \o o_free("sk", body.sk)
                    \o o_free("k", body.k))

\* variant: the loop stops one byte early
RECURSIVE verify_hash_loop_short(_, _, _)
verify_hash_loop_short(m, i, st) ==
  IF i < Len(m) - 1
  THEN verify_hash_loop_short(m, i + 1,
         [h |-> HASH256_process(st.h, m[i + 1]),
          ev |-> Append(st.ev, Feed("verify", m[i + 1]))])
  ELSE st

RECURSIVE verify_hash_loop(_, _, _)
verify_hash_loop(m, i, st) ==
  IF i < Len(m)
  THEN verify_hash_loop(m, i + 1,
         [h |-> HASH256_process(st.h, m[i + 1]),
          ev |-> Append(st.ev, Feed("verify", m[i + 1]))])
  ELSE st

\* end: o_free(L, m); o_free(L, sig); o_free(L, raw_pk)
verify_end(body, a) ==
  o_free("m", body.m) \o o_free("sig", body.sig) \o o_free("raw_pk", a.res_pk.null)

p256_verify(pk, m, sig, failAt) ==
  LET a == allocate_raw_public_key(pk, failAt)
      args == <<Oct(pk), Oct(m), Oct(sig)>>
      st == verify_hash_loop(m, 0, [h |-> HASH256_init, ev |-> <<>>])
      hash == HASH256_hash(st.h)
      v == p256_ecdsa_verify(sig, a.res_pk.val, hash)
      body ==
        IF a.ret # 0
        THEN [failed_msg |-> a.failed_msg, stack |-> args, ev |-> <<>>,
              m |-> TRUE, sig |-> TRUE]
        ELSE IF failAt = 3
        THEN [failed_msg |-> "Could not allocate message", stack |-> args,
              ev |-> <<>>, m |-> TRUE, sig |-> TRUE]
        ELSE IF failAt = 4
        THEN [failed_msg |-> "Could not allocate signature", stack |-> args,
              ev |-> <<Acq("m")>>, m |-> FALSE, sig |-> TRUE]
        ELSE IF Len(sig) # SIG_SIZE
        THEN [failed_msg |-> "Invalid size for P256 signature",
              stack |-> args \o <<Nil>>,
              ev |-> <<Acq("m"), Acq("sig"), Use("sig")>>,
              m |-> FALSE, sig |-> FALSE]
        ELSE [failed_msg |-> NULL_MSG,
              stack |-> args \o <<Bool(v = 0)>>,
              ev |-> <<Acq("m"), Acq("sig"), Use("sig"), Use("m")>> \o st.ev
                       \o <<Use("sig"), Use("raw_pk"), Eng("p256_ecdsa_verify", v)>>,
              m |-> FALSE, sig |-> FALSE]
  IN WithNorm(a, Finish(body.failed_msg, body.stack, 1,
                        a.ev \o body.ev \o verify_end(body, a)))

\* for (i = 0; i < PK_COORD_SIZE; i++) c->val[i] = raw_pk->val[off + i];
\* c->val[PK_COORD_SIZE + 1] = 0x0;  c->len = PK_COORD_SIZE
\* The last write is one past the PK_COORD_SIZE + 1 bytes asked for: it is kept
\* in the trace; where it lands is settled in p256_pub_xy.
coord_copy(name, raw, off) ==
  [val |-> [i \in 1..PK_COORD_SIZE |-> raw[off + i]],
   ev |-> <<Use("raw_pk")>> \o [i \in 1..PK_COORD_SIZE |-> Wr(name, i - 1)]
            \o <<Wr(name, PK_COORD_SIZE + 1)>>]

\* What the writes of x->val[PK_COORD_SIZE + 1] and y->val[PK_COORD_SIZE + 1],
\* one past the buffers o_new was asked for, can do; it depends on what lies
\* behind the buffer o_new hands out:
\*   "slack"      both stores land in memory the allocator left unused behind
\*                the buffers, and the call goes on;
\*   "neighbour"  the buffers are packed towards lower addresses, each directly
\*                below the one allocated before it: the store behind x lands
\*                on raw_pk->val[0], the store behind y on x->val[0], and the
\*                call goes on;
\*   "header"     the buffers are packed towards lower addresses, each val
\*                directly below the header of the octet allocated before it:
\*                the store behind x lands on the low byte of raw_pk->len, the
\*                store behind y on the low byte of x->len, set to
\*                PK_COORD_SIZE the line before, and the call goes on;
\*   "trap_x"     the store behind x faults and the process dies at line 292,
\*                raw_pk unreleased;
\*   "trap_y"     the store behind x lands and the one behind y faults at
\*                line 301.
OobOutcomes == {"slack", "neighbour", "header", "trap_x", "trap_y"}

\* the buffer after a store of 0x0 that landed on its first byte
clobbered(val) == [i \in 1..Len(val) |-> IF i = 1 THEN 0 ELSE val[i]]

\* the bytes an octet holds once a store of 0x0 has landed on the low byte of
\* its len
len_clobbered(val) == SubSeq(val, 1, Len(val) - (Len(val) % 256))

p256_pub_xy(pk, failAt, oob) ==
  LET a == allocate_raw_public_key(pk, failAt)
      args == <<Oct(pk)>>
      x == coord_copy("x", a.res_pk.val, 0)
      \* raw_pk when y is copied, after the store of line 292 (the copy reads
      \* PK_COORD_SIZE bytes of raw_pk->val whatever raw_pk->len has become)
      raw292 == IF oob = "neighbour" THEN clobbered(a.res_pk.val)
                ELSE a.res_pk.val
      y == coord_copy("y", raw292, PK_COORD_SIZE)
      \* x when it is returned, after the store of line 301
      x301 == IF oob = "neighbour" THEN clobbered(x.val)
              ELSE IF oob = "header" THEN len_clobbered(x.val)
              ELSE x.val
      evx == <<New("x", PK_COORD_SIZE + 1)>> \o x.ev
      evy == <<New("y", PK_COORD_SIZE + 1)>> \o y.ev
      body ==
        IF a.ret # 0
        THEN [failed_msg |-> a.failed_msg, stack |-> args, ev |-> <<>>,
              died |-> FALSE]
        ELSE IF failAt = 3
        THEN [failed_msg |-> "Could not create x coordinate", stack |-> args,
              ev |-> <<>>, died |-> FALSE]
        ELSE IF oob = "trap_x"
        THEN [failed_msg |-> NULL_MSG, stack |-> args \o <<Oct(x.val)>>,
              ev |-> evx, died |-> TRUE]
        ELSE IF failAt = 4
        THEN [failed_msg |-> "Could not create y coordinate",
              stack |-> args \o <<Oct(x.val)>>, ev |-> evx, died |-> FALSE]
        ELSE IF oob = "trap_y"
        THEN [failed_msg |-> NULL_MSG,
              stack |-> args \o <<Oct(x.val), Oct(y.val)>>,
              ev |-> evx \o evy, died |-> TRUE]
        ELSE [failed_msg |-> NULL_MSG,
              stack |-> args \o <<Oct(x301), Oct(y.val)>>,
              ev |-> evx \o evy, died |-> FALSE]
  IN IF body.died
     THEN WithNorm(a, [outcome |-> Crash, ev |-> a.ev \o body.ev])
     ELSE WithNorm(a, Finish(body.failed_msg, body.stack, 2,
                             a.ev \o body.ev \o o_free("raw_pk", a.res_pk.null)))

p256_compress_pub(pk, engFail, failAt) ==
  LET a == allocate_raw_public_key(pk, failAt)
      args == <<Oct(pk)>>
      body ==
        IF a.ret # 0
        THEN [failed_msg |-> a.failed_msg, stack |-> args, ev |-> <<>>]
        ELSE IF failAt = 3
        THEN [failed_msg |-> "Could not create compressed public key",
              stack |-> args, ev |-> <<>>]
        ELSE LET c == p256_compress_publickey(a.res_pk.val, engFail)
             IN [failed_msg |-> IF c.ret # 0 THEN "Could not compress public key"
                                ELSE NULL_MSG,
                 stack |-> args \o <<Oct(c.out)>>,
                 ev |-> <<New("compressed_pk", COMPRESSED_PK_SIZE),
                          Use("raw_pk"), Eng("p256_compress_publickey", c.ret)>>]
  IN WithNorm(a, Finish(body.failed_msg, body.stack, 1,
                        a.ev \o body.ev \o o_free("raw_pk", a.res_pk.null)))

\* ------------------------------------------------------------ inputs
Min(a, b) == IF a < b THEN a ELSE b

\* valid scalars drawn by callers and by the engine's RNG
Scalars == 1..Min(MaxScalar, Order - 1)

\* which allocation of the call fails (0: none); no handler makes more than 4
FailAts == 0..4

\* messages: every length up to MaxMsgLen, two byte patterns per length
MsgOf(len, p) == [i \in 1..len |-> IF (i + p) % 2 = 0 THEN 255 ELSE 1]
Msgs == {MsgOf(len, p) : len \in 0..MaxMsgLen, p \in 0..1}

\* secrets: the scalars (0 is out of range), and two of the wrong length
SkInputs ==
  {Pad32(d) : d \in 0..Min(MaxScalar, Order - 1)}
    \cup {[i \in 1..16 |-> 1], [i \in 1..33 |-> IF i = 32 THEN 1 ELSE 0]}

\* caller-supplied nonces
KInputs == {Pad32(d) : d \in 0..Min(MaxScalar, Order - 1)}

\* the three encodings of a point
Raw(d) == RawPoint(d)
Uncompressed(d) == <<4>> \o RawPoint(d)
Compressed(d) == <<2 + (d % 2)>> \o Coord32(XCoord(d))
Encodings(d) == {Raw(d), Uncompressed(d), Compressed(d)}

\* 64 bytes that are no point of the curve
OffCurve64 == Coord32(1) \o Coord32(2)

Malformed ==
  { <<1>> \o RawPoint(1),          \* 65 bytes, prefix 0x01
    <<0>> \o Coord32(1),           \* 33 bytes, prefix 0x00
    <<2>> \o Coord32(0),           \* 33 bytes, X with no point
    <<3>> \o Coord32(Order - 1),   \* 33 bytes, X with no point
    [i \in 1..10 |-> 4],           \* 10 bytes
    <<>>,
    [i \in 1..66 |-> 4],
    OffCurve64,
    [i \in 1..64 |-> 4],           \* 64 bytes that start with 0x04
    <<4>> \o OffCurve64 }

PkInputs == UNION {Encodings(d) : d \in 1..(Order - 1)} \cup Malformed

SigInputs ==
  {Pad32(r) \o Pad32(s) : r \in 1..2, s \in {1, 3}}
    \cup { Pad32(0) \o Pad32(0),
           [i \in 1..63 |-> 0],
           [i \in 1..65 |-> IF i = 32 \/ i = 64 THEN 1 ELSE 0],
           <<>> }

Uninit32 == {Pad32(0), [i \in 1..32 |-> 170]}

\* ------------------------------------------------------------ state
VARIABLES
  op,       \* the handler that ran, "none" before any
  args,     \* its arguments, the allocation that failed and the engine's draws
  outcome,  \* how the call ended: return with values, error, crash
  events,   \* what the call did, in order
  norm,     \* what allocate_raw_public_key returned, for the handlers that call it
            \* (ub: what the call's out-of-bounds or NULL write did)
  chain     \* set when verify is given the signature a sign call just returned

vars == <<op, args, outcome, events, norm, chain>>

NoArgs ==
  [sk |-> <<>>, pk |-> <<>>, m |-> <<>>, sig |-> <<>>, k |-> <<>>, nargs |-> 0,
   rnd |-> 0, failAt |-> 0, engFail |-> FALSE, ub |-> "checked", uninit |-> <<>>]

NoChain == [on |-> FALSE, sk |-> <<>>, m |-> <<>>]

Init ==
  /\ op = "none"
  /\ args = NoArgs
  /\ outcome = [kind |-> "none", msg |-> NULL_MSG, vals |-> <<>>]
  /\ events = <<>>
  /\ norm = NoNorm
  /\ chain = NoChain

\* the call `name` with arguments a ended as r
Called(name, a, r) ==
  /\ op' = name
  /\ args' = a
  /\ outcome' = r.outcome
  /\ events' = r.ev
  /\ norm' = r.norm

keygen ==
  /\ op = "none"
  /\ \E rnd \in Scalars, rngFail \in BOOLEAN, failAt \in 0..1,
        ub \in UbOutcomes, uninit \in Uninit32 :
       Called("keygen",
              [NoArgs EXCEPT !.rnd = rnd, !.engFail = rngFail, !.failAt = failAt,
                             !.ub = ub, !.uninit = uninit],
              p256_keygen(rnd, rngFail, failAt, ub, uninit))
  /\ UNCHANGED chain

pubgen ==
  /\ op = "none"
  /\ \E sk \in SkInputs, failAt \in 0..2 :
       Called("pubgen", [NoArgs EXCEPT !.sk = sk, !.nargs = 1, !.failAt = failAt],
              p256_pubgen(sk, failAt))
  /\ UNCHANGED chain

pubcheck ==
  /\ op = "none"
  /\ \E pk \in PkInputs, failAt \in 0..2 :
       Called("pubcheck", [NoArgs EXCEPT !.pk = pk, !.nargs = 1, !.failAt = failAt],
              p256_pubcheck(pk, failAt))
  /\ UNCHANGED chain

\* sign(sk, m): the engine draws the nonce
sign2 ==
  /\ op = "none"
  /\ \E sk \in SkInputs, m \in Msgs, rnd \in Scalars, failAt \in FailAts :
       Called("sign",
              [NoArgs EXCEPT !.sk = sk, !.m = m, !.nargs = 2, !.rnd = rnd,
                             !.failAt = failAt],
              p256_sign(sk, m, <<>>, 2, rnd, failAt))
  /\ UNCHANGED chain

\* sign(sk, m, k): the caller gives the nonce
sign3 ==
  /\ op = "none"
  /\ \E sk \in SkInputs, m \in Msgs, k \in KInputs, failAt \in FailAts :
       Called("sign",
              [NoArgs EXCEPT !.sk = sk, !.m = m, !.k = k, !.nargs = 3,
                             !.failAt = failAt],
              p256_sign(sk, m, k, 3, 0, failAt))
  /\ UNCHANGED chain

verify ==
  /\ op = "none"
  /\ \E pk \in PkInputs, m \in Msgs, sig \in SigInputs, failAt \in FailAts :
       Called("verify",
              [NoArgs EXCEPT !.pk = pk, !.m = m, !.sig = sig, !.nargs = 3,
                             !.failAt = failAt],
              p256_verify(pk, m, sig, failAt))
  /\ UNCHANGED chain

\* verify called with the signature the sign call before it returned
verify_signed ==
  /\ op = "sign"
  /\ outcome.kind = "return"
  /\ \E pk \in PkInputs, m \in Msgs, failAt \in FailAts :
       Called("verify",
              [NoArgs EXCEPT !.pk = pk, !.m = m, !.sig = outcome.vals[1].v,
                             !.nargs = 3, !.failAt = failAt],
              p256_verify(pk, m, outcome.vals[1].v, failAt))
  /\ chain' = [on |-> TRUE, sk |-> args.sk, m |-> args.m]

public_xy ==
  /\ op = "none"
  /\ \E pk \in PkInputs, failAt \in FailAts, oob \in OobOutcomes :
       Called("public_xy",
              [NoArgs EXCEPT !.pk = pk, !.nargs = 1, !.failAt = failAt, !.ub = oob],
              p256_pub_xy(pk, failAt, oob))
  /\ UNCHANGED chain

compress_public_key ==
  /\ op = "none"
  /\ \E pk \in PkInputs, engFail \in BOOLEAN, failAt \in 0..3 :
       Called("compress_public_key",
              [NoArgs EXCEPT !.pk = pk, !.nargs = 1, !.engFail = engFail,
                             !.failAt = failAt],
              p256_compress_pub(pk, engFail, failAt))
  /\ UNCHANGED chain

Next ==
  \/ keygen
  \/ pubgen
  \/ pubcheck
  \/ sign2
  \/ sign3
  \/ verify
  \/ verify_signed
  \/ public_xy
  \/ compress_public_key

Spec == Init /\ [][Next]_vars

\* ------------------------------------------------------------ properties
Range(s) == {s[i] : i \in DOMAIN s}

\* positions in the trace of the events <<kind, name, _>>
Pos(kind, name) == {i \in DOMAIN events : events[i][1] = kind /\ events[i][2] = name}

\* the engine calls of the call, with what each returned
EngCalls == {e \in Range(events) : e[1] = "eng"}
EngRet(fn) == {e[3] : e \in {c \in EngCalls : c[2] = fn}}

\* the bytes fed to the hash stage, in order
FeedEvents == SelectSeq(events, LAMBDA e : e[1] = "feed")
Fed == [i \in 1..Len(FeedEvents) |-> FeedEvents[i][3]]

\* the error names of the design and the messages that carry them
InvalidKeyLength == {"Invalid public key length"}
InvalidEncoding ==
  {"Invalid long public key prefix: 0x04 expected",
   "Invalid compressed public key prefix: 0x02 or 0x03 expected"}
InvalidSecretKey ==
  {"Invalid size for ECDSA secret key", "Invalid size for P256 secret key"}
InvalidSignatureLength == {"Invalid size for P256 signature"}

\* a public key whose length or prefix is not one of the accepted encodings
MalformedKey(pk) ==
  \/ Len(pk) \notin {PK_SIZE, UNCOMPRESSED_PK_SIZE, COMPRESSED_PK_SIZE}
  \/ Len(pk) = UNCOMPRESSED_PK_SIZE /\ pk[1] # 4
  \/ Len(pk) = COMPRESSED_PK_SIZE /\ pk[1] \notin {2, 3}

\* C1: verify, given the signature sign returned for (sk, m), the same m and
\* any accepted encoding of sk's public key, returns true (when none of its
\* allocations fails); sign and verify each feed the hash exactly the bytes of
\* their message, in order.
C1_SignThenVerify ==
  /\ (op = "sign" /\ outcome.kind = "return") => Fed = args.m
  /\ (op = "verify" /\ chain.on /\ args.m = chain.m /\ args.failAt = 0
        /\ args.pk \in Encodings(PointOf(p256_publickey(chain.sk).out)))
       => /\ Fed = chain.m
          /\ outcome = Return(<<Bool(TRUE)>>)

C1_Witness ==
  /\ op = "verify" /\ chain.on /\ args.m = chain.m /\ args.failAt = 0
  /\ Len(args.m) = 2
  /\ args.pk = Compressed(PointOf(p256_publickey(chain.sk).out))
  /\ outcome = Return(<<Bool(TRUE)>>)

\* C2: once the argument copy and the raw buffer are allocated, what
\* allocate_raw_public_key returns is fixed by the input's length and first
\* byte: 64 bytes are copied through, 65 bytes are accepted iff the first is
\* 0x04 and then bytes 1..64 are the output, a 33-byte input with another
\* prefix than 0x02/0x03 and a 65-byte one with another than 0x04 fail with
\* InvalidEncoding, any other length fails with InvalidKeyLength. The engine's
\* decompression is called only for a well-prefixed 33-byte input, a rejected
\* key reaches no engine routine, and the on-curve check is made by pubcheck
\* alone.
C2_NormalizeByLengthAndPrefix ==
  (norm.called /\ args.failAt \notin {1, 2}) =>
    LET pk == args.pk
    IN /\ Len(pk) = PK_SIZE =>
            /\ norm.ret = 0 /\ norm.failed_msg = NULL_MSG
            /\ norm.res_pk.val = pk
       /\ (Len(pk) = UNCOMPRESSED_PK_SIZE /\ pk[1] = 4) =>
            /\ norm.ret = 0 /\ norm.failed_msg = NULL_MSG
            /\ norm.res_pk.val = SubSeq(pk, 2, UNCOMPRESSED_PK_SIZE)
       /\ (Len(pk) = UNCOMPRESSED_PK_SIZE /\ pk[1] # 4) =>
            norm.ret # 0 /\ norm.failed_msg \in InvalidEncoding
       /\ (Len(pk) = COMPRESSED_PK_SIZE /\ pk[1] \notin {2, 3}) =>
            norm.ret # 0 /\ norm.failed_msg \in InvalidEncoding
       /\ Len(pk) \notin {PK_SIZE, UNCOMPRESSED_PK_SIZE, COMPRESSED_PK_SIZE} =>
            norm.ret # 0 /\ norm.failed_msg \in InvalidKeyLength
       /\ EngRet("p256_uncompress_publickey") # {} <=>
            (Len(pk) = COMPRESSED_PK_SIZE /\ pk[1] \in {2, 3})
       /\ MalformedKey(pk) => EngCalls = {}
       /\ EngRet("p256_validate_pubkey") # {} => op = "pubcheck"
       /\ (op = "public_xy" /\ Len(pk) # COMPRESSED_PK_SIZE) => EngCalls = {}

\* a 65-byte key 0x04 || X || Y that is not on the curve is accepted as it is
C2_Witness ==
  /\ op = "public_xy" /\ args.failAt = 0
  /\ args.pk = <<4>> \o OffCurve64
  /\ norm.called /\ norm.ret = 0 /\ norm.res_pk.val = OffCurve64
  /\ EngCalls = {}

\* C3: when the engine's decompression of a well-prefixed 33-byte key fails,
\* allocate_raw_public_key fails and the handler that called it ends in an
\* error.
C3_DecompressionFailureIsError ==
  (norm.called /\ \E r \in EngRet("p256_uncompress_publickey") : r # 0) =>
    /\ norm.ret # 0
    /\ outcome.kind = "error"

\* C4: in sign, verify and pubgen a failed validation (secret not 32 bytes,
\* public key of wrong length or prefix, signature not 64 bytes) ends the call
\* in an error and no engine routine was called during the call.
C4_ValidationFailsBeforeEngine ==
  /\ (op \in {"sign", "pubgen"} /\ Len(args.sk) # SK_SIZE) =>
       /\ outcome.kind = "error" /\ EngCalls = {}
       /\ args.failAt = 0 => outcome.msg \in InvalidSecretKey
  /\ (op = "verify" /\ MalformedKey(args.pk)) =>
       outcome.kind = "error" /\ EngCalls = {}
  /\ (op = "verify" /\ Len(args.sig) # SIG_SIZE) =>
       /\ outcome.kind = "error" /\ EngCalls = {}
       /\ (args.failAt = 0 /\ ~MalformedKey(args.pk)) =>
            outcome.msg \in InvalidSignatureLength

\* C5: with a public key that normalises (and for verify a 64-byte signature
\* and the message and signature copies allocated), pubcheck and verify return
\* one boolean, true iff the engine's routine, called on the normalised key,
\* returned 0; they end in an error only when the key is malformed, the
\* signature is not 64 bytes or an allocation failed.
C5_VerdictIsBoolean ==
  /\ (op = "pubcheck" /\ norm.called /\ norm.ret = 0) =>
       /\ EngRet("p256_validate_pubkey") = {p256_validate_pubkey(norm.res_pk.val)}
       /\ outcome = Return(<<Bool(EngRet("p256_validate_pubkey") = {0})>>)
  /\ (op = "verify" /\ norm.called /\ norm.ret = 0 /\ Len(args.sig) = SIG_SIZE
        /\ args.failAt \notin {3, 4}) =>
       /\ Cardinality(EngRet("p256_ecdsa_verify")) = 1
       /\ outcome = Return(<<Bool(EngRet("p256_ecdsa_verify") = {0})>>)
  /\ (op \in {"pubcheck", "verify"} /\ outcome.kind = "error") =>
       \/ MalformedKey(args.pk)
       \/ op = "verify" /\ Len(args.sig) # SIG_SIZE
       \/ args.failAt # 0

\* a key that is well formed but not on the curve: pubcheck returns false
C5_Witness ==
  /\ op = "pubcheck" /\ args.pk = OffCurve64 /\ args.failAt = 0
  /\ norm.ret = 0
  /\ outcome = Return(<<Bool(FALSE)>>)

\* C6: given any of the three encodings of a point, verify ends the same way
\* and public_xy, whenever it returns, returns the same (x, y), the halves of
\* the point's X || Y, whatever the encoding and the heap the call runs on.
C6_EncodingIndependent ==
  \A d \in 1..(Order - 1) :
    (op \in {"verify", "public_xy"} /\ args.pk \in Encodings(d)) =>
      /\ args.failAt \notin {1, 2} => norm.ret = 0 /\ norm.res_pk.val = RawPoint(d)
      /\ op = "verify" =>
           \A e \in Encodings(d) :
             outcome = p256_verify(e, args.m, args.sig, args.failAt).outcome
      /\ (op = "public_xy" /\ outcome.kind = "return") =>
           /\ outcome = Return(<<Oct(Coord32(XCoord(d))), Oct(Coord32(d))>>)
           /\ \A e \in Encodings(d), u \in OobOutcomes :
                p256_pub_xy(e, args.failAt, u).outcome.kind = "return" =>
                  p256_pub_xy(e, args.failAt, u).outcome = outcome

\* C7 as stated: a keygen that returns hands back the 32-byte secret and the
\* matching 64-byte public key.
C7_KeygenReturnsKeypair ==
  (op = "keygen" /\ outcome.kind = "return" /\ EngRet("p256_gen_keypair") = {0}) =>
    /\ Len(outcome.vals) = 2
    /\ outcome.vals[1] = Oct(Pad32(args.rnd))
    /\ outcome.vals[2] = Oct(RawPoint(args.rnd))

\* C8: keygen ends in an error, returning no key, when the engine's keypair
\* generation fails or the secret buffer cannot be allocated, and it writes to
\* the secret buffer only after the check of its allocation.
C8_KeygenFailureIsError ==
  op = "keygen" =>
    /\ (args.failAt = 1 \/ \E r \in EngRet("p256_gen_keypair") : r # 0) =>
         outcome.kind = "error"
    /\ \A w \in Pos("wr", "sk") : \E c \in Pos("chk", "sk") : c < w

\* C9: in pubgen, pubcheck, sign, verify, public_xy and compress_public_key,
\* when the call returns or throws, on whichever path, every buffer obtained
\* with o_arg or o_alloc has been released exactly once; in every call, also
\* one the process does not survive, no buffer is released twice, released
\* before it is acquired or used after its release.
C9_ReleasedExactlyOnce ==
  (op \in {"pubgen", "pubcheck", "sign", "verify", "public_xy",
           "compress_public_key"}) =>
    \A name \in {"pk", "raw_pk", "sk", "m", "k", "sig"} :
      /\ Cardinality(Pos("acq", name)) <= 1
      /\ Cardinality(Pos("rel", name)) <= Cardinality(Pos("acq", name))
      /\ outcome.kind \in {"return", "error"} =>
           Cardinality(Pos("rel", name)) = Cardinality(Pos("acq", name))
      /\ \A a \in Pos("acq", name), r \in Pos("rel", name) : a < r
      /\ \A u \in Pos("use", name) :
           /\ \E a \in Pos("acq", name) : a < u
           /\ \A r \in Pos("rel", name) : u < r

\* verify whose raw-key allocation fails: the key copy is the only buffer
\* held, and it is released before the error
C9_Witness ==
  /\ op = "verify" /\ args.failAt = 2
  /\ outcome.kind = "error"
  /\ Cardinality(Pos("acq", "pk")) = 1 /\ Cardinality(Pos("rel", "pk")) = 1
  /\ Pos("acq", "raw_pk") = {}

\* C10: public_xy on a key that normalises returns x and y of 32 bytes each
\* and writes every byte below the capacity it asked for.
C10_CoordinateWritesInBounds ==
  (op = "public_xy" /\ norm.called /\ norm.ret = 0 /\ args.failAt = 0) =>
    /\ outcome.kind = "return"
    /\ Len(outcome.vals) = 2
    /\ Len(outcome.vals[1].v) = PK_COORD_SIZE
    /\ Len(outcome.vals[2].v) = PK_COORD_SIZE
    /\ \A w \in Range(events) :
         (w[1] = "wr") =>
           \E n \in Range(events) : n[1] = "new" /\ n[2] = w[2] /\ w[3] < n[3]

====
